---- MODULE Spec2Model ----
(***************************************************************************)
(* Verification model of the cherry-studio fork:                           *)
(*   - main/services/AppUpdater.ts           (update service, disabled)    *)
(*   - pages/settings/AboutSettings.tsx      (check-update button)         *)
(*   - the OpenAI Responses provider         (completions, check, images)  *)
(*   - components/CodeBlockView/CodePreview  (token line completion)       *)
(* Each component has its own specification; the variables of the other    *)
(* components keep their initial values there.                             *)
(***************************************************************************)
EXTENDS Integers, Sequences, FiniteSets, TLC

VARIABLES
  \* ---- AppUpdater.ts (main process) ----
  constructed,          \* new AppUpdater() has run
  autoDownload,         \* autoUpdater.autoDownload
  autoInstallOnAppQuit, \* autoUpdater.autoInstallOnAppQuit
  tokensCreated,        \* number of CancellationToken objects created so far
  tokensCancelled,      \* number of them that were cancelled
  updateCheckResult,    \* {this.updateCheckResult}, {} while it is null
  resultCancelled,      \* updateCheckResult.cancellationToken was cancelled
  ipcSent,              \* messages sent to the main window's webContents
  lastReturn,           \* {value the last checkForUpdates() resolved to}, {} before
  callLog,              \* the method calls made on the AppUpdater, in order
  \* ---- AboutSettings.tsx (renderer) ----
  now,                  \* Date.now() in ms since the page was mounted
  ticks,                \* number of clock advances
  renders,              \* number of renders of AboutSettings
  isPortable,           \* useState(false)
  appInfoLoaded,        \* loadAppInfo() has resolved
  lastCallTime,         \* lodash debounce: {lastCallTime} of the current closure, {} if undefined
  timerDue,             \* lodash debounce: {due time of timerId}, {} if no timer
  modalOpens,           \* times at which window.modal.info was called
  checksStarted,        \* update checks/downloads started from the page
  \* ---- BaseOpenAIProvider.completions / generateImageByChat ----
  pc,                   \* where the running completions call is
  opts,                 \* the call's inputs that later steps read
  reqMessages,          \* the request input, grown round by round
  idx,                  \* processStream's idx: the round being processed
  frames,               \* processStream calls that have not returned yet
  received,             \* stream events / output items handed to the call so far
  content,              \* processStream: content
  thinkContent,         \* processStream: thinkContent
  outputItems,          \* processStream: ids of the function_call items added
  toolCalls,            \* processStream: toolCalls
  toolResults,          \* processStream: toolResults
  firstToken,           \* processStream: time_first_token_millsec
  finalFirstToken,      \* finalMetrics.time_first_token_millsec
  paused,               \* window.keyv.get(CHAT_COMPLETION_PAUSED)
  images,               \* generateImageByChat: number of images collected
  chunks,               \* the chunk types delivered to onChunk, in order
  blockFirstToken,      \* time_first_token_millsec of the BLOCK_COMPLETE chunks
  trace,                \* events consumed, tools invoked, requests issued, errors thrown
  \* ---- BaseOpenAIProvider.check ----
  checkPc,              \* where the running check call is
  checkStream,          \* the call's stream argument
  checkSeen,            \* stream events read by the call so far
  checkLog,             \* what happened in each finished call, and its result
  \* ---- CodePreview.tsx ----
  rawLine,              \* VirtualizedRow: rawLine
  tokenLine,            \* VirtualizedRow: {tokenLine}, {} while it is undefined
  rowTokens             \* the tokens VirtualizedRow renders

updaterVars == <<constructed, autoDownload, autoInstallOnAppQuit, tokensCreated,
                 tokensCancelled, updateCheckResult, resultCancelled, ipcSent,
                 lastReturn, callLog>>
aboutVars == <<now, ticks, renders, isPortable, appInfoLoaded, lastCallTime,
               timerDue, modalOpens, checksStarted>>
completionsVars == <<pc, opts, reqMessages, idx, frames, received, content, thinkContent,
                     outputItems, toolCalls, toolResults, firstToken, finalFirstToken,
                     paused, images, chunks, blockFirstToken, trace>>
checkVars == <<checkPc, checkStream, checkSeen, checkLog>>
previewVars == <<rawLine, tokenLine, rowTokens>>

\* ------------------------------------------------------------------------
\* Bounds
\* ------------------------------------------------------------------------
MaxUpdaterCalls == 4
MaxTicks == 3
MaxRenders == 2
MaxOpens == 2

Null == "null"
AppVersion == "1.0.0"

\* ========================================================================
\* AppUpdater.ts
\* ========================================================================

\* The channel each autoUpdater listener registered by the constructor
\* forwards its event to (AppUpdater.ts:32-56).
autoUpdaterOn(event) ==
  CASE event = "error" -> "UpdateError"
    [] event = "update-available" -> "UpdateAvailable"
    [] event = "update-not-available" -> "UpdateNotAvailable"
    [] event = "download-progress" -> "DownloadProgress"
    [] event = "update-downloaded" -> "UpdateDownloaded"

UpdateChannels ==
  {"UpdateError", "UpdateAvailable", "UpdateNotAvailable", "DownloadProgress",
   "UpdateDownloaded"}

\* electron-updater's defaults before the service is constructed.
UpdaterInit ==
  /\ constructed = FALSE
  /\ autoDownload = TRUE
  /\ autoInstallOnAppQuit = TRUE
  /\ tokensCreated = 0
  /\ tokensCancelled = 0
  /\ updateCheckResult = {}
  /\ resultCancelled = FALSE
  /\ ipcSent = <<>>
  /\ lastReturn = {}
  /\ callLog = <<>>

\* constructor(): disables auto update, registers the listeners, and the
\* field initialisers create the first CancellationToken.
AppUpdaterConstructor ==
  /\ ~constructed
  /\ constructed' = TRUE
  /\ autoDownload' = FALSE
  /\ autoInstallOnAppQuit' = FALSE
  /\ tokensCreated' = 1
  /\ updateCheckResult' = {}
  /\ UNCHANGED <<tokensCancelled, resultCancelled, ipcSent, lastReturn, callLog>>

\* Variant: the upstream behaviour, which honours the requested flag.
setAutoUpdateHonoursFlag(isActive) ==
  /\ constructed
  /\ Len(callLog) < MaxUpdaterCalls
  /\ callLog' = Append(callLog, <<"setAutoUpdate", isActive>>)
  /\ autoDownload' = isActive
  /\ autoInstallOnAppQuit' = isActive
  /\ UNCHANGED <<constructed, tokensCreated, tokensCancelled, updateCheckResult,
                 resultCancelled, ipcSent, lastReturn>>

\* setAutoUpdate(_isActive): the argument is ignored.
setAutoUpdate(isActive) ==
  /\ constructed
  /\ Len(callLog) < MaxUpdaterCalls
  /\ callLog' = Append(callLog, <<"setAutoUpdate", isActive>>)
  /\ autoDownload' = FALSE
  /\ autoInstallOnAppQuit' = FALSE
  /\ UNCHANGED <<constructed, tokensCreated, tokensCancelled, updateCheckResult,
                 resultCancelled, ipcSent, lastReturn>>

\* cancelDownload(): cancel the current token, create a new one, and cancel
\* the running check's token only when autoDownload is on.
cancelDownload ==
  /\ constructed
  /\ Len(callLog) < MaxUpdaterCalls
  /\ callLog' = Append(callLog, <<"cancelDownload">>)
  /\ tokensCancelled' = tokensCancelled + 1
  /\ tokensCreated' = tokensCreated + 1
  /\ resultCancelled' =
       IF autoDownload /\ updateCheckResult # {} THEN TRUE ELSE resultCancelled
  /\ UNCHANGED <<constructed, autoDownload, autoInstallOnAppQuit, updateCheckResult,
                 ipcSent, lastReturn>>

\* Variant: the upstream behaviour, which asks electron-updater for an update;
\* the check result is stored and the library emits an event that the
\* constructor's listener forwards to the main window.
checkForUpdatesChecks ==
  /\ constructed
  /\ Len(callLog) < MaxUpdaterCalls
  /\ callLog' = Append(callLog, <<"checkForUpdates">>)
  /\ \E ev \in {"update-available", "update-not-available", "error"} :
       ipcSent' = Append(ipcSent, autoUpdaterOn(ev))
  /\ updateCheckResult' = {[currentVersion |-> AppVersion, updateInfo |-> "info"]}
  /\ lastReturn' = {[currentVersion |-> AppVersion, updateInfo |-> "info"]}
  /\ UNCHANGED <<constructed, autoDownload, autoInstallOnAppQuit, tokensCreated,
                 tokensCancelled, resultCancelled>>

\* checkForUpdates(): only logs and returns the current version.
checkForUpdates ==
  /\ constructed
  /\ Len(callLog) < MaxUpdaterCalls
  /\ callLog' = Append(callLog, <<"checkForUpdates">>)
  /\ lastReturn' = {[currentVersion |-> AppVersion, updateInfo |-> Null]}
  /\ UNCHANGED <<constructed, autoDownload, autoInstallOnAppQuit, tokensCreated,
                 tokensCancelled, updateCheckResult, resultCancelled, ipcSent>>

UpdaterNext ==
  \/ AppUpdaterConstructor
  \/ \E isActive \in BOOLEAN : setAutoUpdate(isActive)
  \/ cancelDownload
  \/ checkForUpdates

\* ========================================================================
\* AboutSettings.tsx
\* ========================================================================
Wait == 2000
TickSteps == {1000, 2000}

AboutInit ==
  /\ now = 0
  /\ ticks = 0
  /\ renders = 1
  /\ isPortable = FALSE
  /\ appInfoLoaded = FALSE
  /\ lastCallTime = {}
  /\ timerDue = {}
  /\ modalOpens = <<>>
  /\ checksStarted = 0

\* Time passes.
Tick ==
  /\ ticks < MaxTicks
  /\ \E d \in TickSteps : now' = now + d
  /\ ticks' = ticks + 1
  /\ UNCHANGED <<renders, isPortable, appInfoLoaded, lastCallTime, timerDue,
                 modalOpens, checksStarted>>

\* lodash debounce, shouldInvoke(time).
shouldInvoke(time) ==
  \/ lastCallTime = {}
  \/ \E last \in lastCallTime : time - last >= Wait \/ time - last < 0

\* The function wrapped by debounce (AboutSettings.tsx:27-34): it opens the
\* informational modal and nothing else.
onCheckUpdateInvoke ==
  /\ modalOpens' = Append(modalOpens, now)
  /\ checksStarted' = checksStarted

\* A click on CheckUpdateButton: the debounced onCheckUpdate of the current
\* render runs (debounce(func, 2000, {leading: true, trailing: false})).
onCheckUpdate ==
  /\ ~isPortable
  /\ Len(modalOpens) < MaxOpens
  /\ lastCallTime' = {now}
  /\ IF shouldInvoke(now) /\ timerDue = {}
       THEN \* leadingEdge: start the timer and invoke
            /\ timerDue' = {now + Wait}
            /\ onCheckUpdateInvoke
       ELSE /\ timerDue' = IF timerDue = {} THEN {now + Wait} ELSE timerDue
            /\ UNCHANGED <<modalOpens, checksStarted>>
  /\ UNCHANGED <<now, ticks, renders, isPortable, appInfoLoaded>>

\* lodash debounce, timerExpired(): trailing is false, so nothing is invoked.
timerExpired ==
  /\ \E due \in timerDue : now >= due
  /\ timerDue' = IF shouldInvoke(now) THEN {}
                 ELSE {now + (Wait - (now - last)) : last \in lastCallTime}
  /\ UNCHANGED <<now, ticks, renders, isPortable, appInfoLoaded, lastCallTime,
                 modalOpens, checksStarted>>

\* The component function runs again: line 26 creates a new debounced
\* function with fresh state, and the button is bound to it.
Render ==
  /\ renders' = renders + 1
  /\ lastCallTime' = {}
  /\ timerDue' = {}

\* loadAppInfo() resolves: setVersion and setIsPortable re-render the page.
loadAppInfo ==
  /\ ~appInfoLoaded
  /\ appInfoLoaded' = TRUE
  /\ \E p \in BOOLEAN : isPortable' = p
  /\ Render
  /\ UNCHANGED <<now, ticks, modalOpens, checksStarted>>

\* A context the component subscribes to changes (useRuntime, useTheme,
\* useTranslation): the component re-renders.
contextChanged ==
  /\ renders < MaxRenders + 1
  /\ Render
  /\ UNCHANGED <<now, ticks, isPortable, appInfoLoaded, modalOpens, checksStarted>>

AboutNext ==
  \/ Tick
  \/ onCheckUpdate
  \/ timerExpired
  \/ loadAppInfo
  \/ contextChanged

\* ========================================================================
\* BaseOpenAIProvider: message conversion (Responses API)
\* ========================================================================
MaxEvents == 2
MaxRounds == 2

Roles == {"user", "assistant", "system"}
\* An image block has a stored file, a data: URL holding a base64 image,
\* another data: URL, or a remote URL.
ImageKinds == {"file", "data_image", "data_other", "http"}
\* A file block's file.type, or no file at all.
FileKinds == {"text", "document", "image", "nofile"}

Msg(role, text, imageBlocks, fileBlocks) ==
  [role |-> role, content |-> text, imageBlocks |-> imageBlocks, fileBlocks |-> fileBlocks]

Part(type, from, text) == [type |-> type, from |-> from, text |-> text]

Item(role, form, text, parts) == [role |-> role, form |-> form, text |-> text, parts |-> parts]

\* lodash takeRight(array, n)
takeRight(s, n) ==
  IF n >= Len(s) THEN s ELSE SubSeq(s, Len(s) - n + 1, Len(s))

RECURSIVE keepIndices(_, _, _)
\* The messages of s whose index is in kept, in order (from index i on).
keepIndices(s, kept, i) ==
  IF i > Len(s) THEN <<>>
  ELSE (IF i \in kept THEN <<s[i]>> ELSE <<>>) \o keepIndices(s, kept, i + 1)

RECURSIVE responseImagePartsAnyModel(_, _)
\* Variant: images are sent to models without vision too.
responseImagePartsAnyModel(blocks, isVision) ==
  IF blocks = <<>> THEN <<>>
  ELSE LET b == Head(blocks)
           part == IF b = "file" THEN <<Part("input_image", "file", "")>>
                   ELSE IF b \in {"data_image", "data_other"}
                          THEN <<Part("input_image", "url", "")>>
                   ELSE <<>>
       IN part \o responseImagePartsAnyModel(Tail(blocks), isVision)

RECURSIVE responseImageParts(_, _)
\* getReponseMessageParam, the loop over imageBlocks (lines 146-163).
responseImageParts(blocks, isVision) ==
  IF blocks = <<>> THEN <<>>
  ELSE LET b == Head(blocks)
           part == IF ~isVision THEN <<>>
                   ELSE IF b = "file" THEN <<Part("input_image", "file", "")>>
                   ELSE IF b \in {"data_image", "data_other"}
                          THEN <<Part("input_image", "url", "")>>
                   ELSE <<>>
       IN part \o responseImageParts(Tail(blocks), isVision)

RECURSIVE responseFileParts(_)
\* getReponseMessageParam, the loop over fileBlocks (lines 165-176).
responseFileParts(blocks) ==
  IF blocks = <<>> THEN <<>>
  ELSE LET f == Head(blocks)
           part == IF f = "nofile" THEN <<>>
                   ELSE IF f \in {"text", "document"}
                          THEN <<Part("input_text", "filetext", "file")>>
                   ELSE <<>>
       IN part \o responseFileParts(Tail(blocks))

\* Variant: the role is kept as it is.
responseRoleKept(role) == role

\* message.role === 'system' ? 'user' : message.role
responseRole(role) == IF role = "system" THEN "user" ELSE role

\* getReponseMessageParam(message, model); isVision is isVisionModel(model).
getReponseMessageParam(message, isVision) ==
  IF Len(message.fileBlocks) = 0 /\ Len(message.imageBlocks) = 0
    THEN IF message.role = "assistant"
           THEN Item("assistant", "string", message.content, <<>>)
           ELSE Item(responseRole(message.role), "parts", "",
                     IF message.content # ""
                       THEN <<Part("input_text", "content", message.content)>>
                       ELSE <<>>)
    ELSE Item(responseRole(message.role), "parts", "",
              (IF message.content # ""
                 THEN <<Part("input_text", "content", message.content)>> ELSE <<>>)
              \o responseImageParts(message.imageBlocks, isVision)
              \o responseFileParts(message.fileBlocks))

\* ========================================================================
\* BaseOpenAIProvider.completions
\* ========================================================================
NoOpts ==
  [enableGenerateImage |-> FALSE, streamOutput |-> FALSE, mcpTools |-> FALSE,
   hasUser |-> FALSE, userFiles |-> 0, assistantImages |-> 0]

CompletionsInit ==
  /\ pc = "idle"
  /\ opts = NoOpts
  /\ reqMessages = <<>>
  /\ idx = 0
  /\ frames = 0
  /\ received = 0
  /\ content = <<>>
  /\ thinkContent = <<>>
  /\ outputItems = {}
  /\ toolCalls = <<>>
  /\ toolResults = <<>>
  /\ firstToken = "0"
  /\ finalFirstToken = "0"
  /\ paused = FALSE
  /\ images = 0
  /\ chunks = <<>>
  /\ blockFirstToken = <<>>
  /\ trace = <<>>

\* `!systemMessage.content` (line 377): content is the array assigned on
\* line 360, and an array is truthy in JavaScript whatever it holds.
systemMessageContentMissing(contentList) == FALSE

\* Lines 335-381: the request input built from the system message and the
\* converted conversation.
buildReqMessages(systemRole, systemText, userMessage) ==
  LET systemMessageContent == <<Part("input_text", "prompt", systemText)>>
      systemMessage == Item(systemRole, "parts", "", systemMessageContent)
  IN IF systemMessageContentMissing(systemMessageContent)
       THEN userMessage
       ELSE <<systemMessage>> \o userMessage

\* onChunk({ type })
onChunk(sent, type) == Append(sent, type)

\* The image blocks of kind k among blocks.
countKind(blocks, kinds) == Cardinality({k \in 1..Len(blocks) : blocks[k] \in kinds})

\* messages.findLast((m) => m.role === role): its index, 0 if there is none.
findLast(messages, role) ==
  LET hits == {k \in 1..Len(messages) : messages[k].role = role}
  IN IF hits = {} THEN 0 ELSE CHOOSE k \in hits : \A j \in hits : j <= k

\* generateImageByChat, lines 1040-1052: nothing happens without a user
\* message; otherwise the images of the last user and assistant messages
\* are collected next.
generateImageByChat(messages) ==
  LET u == findLast(messages, "user")
      a == findLast(messages, "assistant")
  IN /\ pc' = IF u = 0 THEN "done" ELSE "image_read"
     /\ opts' = [NoOpts EXCEPT
                   !.enableGenerateImage = TRUE,
                   !.hasUser = u # 0,
                   !.userFiles = IF u = 0 THEN 0
                                 ELSE countKind(messages[u].imageBlocks, {"file"}),
                   !.assistantImages = IF a = 0 THEN 0
                                       ELSE countKind(messages[a].imageBlocks, {"data_image"})]
     /\ UNCHANGED <<reqMessages, idx, frames, received, content, thinkContent,
                    outputItems, toolCalls, toolResults, firstToken, finalFirstToken,
                    paused, images, chunks, blockFirstToken, trace>>

\* completions(), lines 314-381 and 713-733: either the image branch, or
\* the request input is built, LLM_RESPONSE_CREATED is sent and the first
\* request is issued.  kept is what the three message filters let through,
\* systemText is the prompt after buildSystemPrompt.
completions(messages, in) ==
  /\ pc = "idle"
  /\ IF in.enableGenerateImage
       THEN generateImageByChat(messages)
       ELSE LET taken == takeRight(messages, in.contextCount + 1)
                filtered == keepIndices(taken, in.kept, 1)
                userMessage == [k \in 1..Len(filtered) |->
                                  getReponseMessageParam(filtered[k], in.model.isVision)]
                systemRole == IF in.model.reasoningEffort THEN "developer" ELSE "system"
            IN /\ reqMessages' = buildReqMessages(systemRole, in.systemText, userMessage)
               /\ opts' = [NoOpts EXCEPT !.streamOutput = in.streamOutput,
                                         !.mcpTools = in.mcpTools]
               /\ chunks' = onChunk(chunks, "LLM_RESPONSE_CREATED")
               /\ trace' = Append(trace, <<0, "request">>)
               /\ pc' = "create"
               /\ UNCHANGED <<idx, frames, received, content, thinkContent, outputItems,
                              toolCalls, toolResults, firstToken, finalFirstToken,
                              paused, images, blockFirstToken>>

\* sdk.responses.create resolves and processStream(stream, idx) starts with
\* fresh locals (lines 473-474, 493, 555-558).
createResolved ==
  /\ pc = "create"
  /\ pc' = "stream"
  /\ frames' = frames + 1
  /\ content' = <<>>
  /\ thinkContent' = <<>>
  /\ outputItems' = {}
  /\ toolCalls' = <<>>
  /\ toolResults' = <<>>
  /\ firstToken' = "0"
  /\ UNCHANGED <<opts, reqMessages, idx, received, finalFirstToken, paused, images,
                 chunks, blockFirstToken, trace>>

\* sdk.responses.create rejects: completions rejects.
createRejected ==
  /\ pc = "create"
  /\ pc' = "rejected"
  /\ UNCHANGED <<opts, reqMessages, idx, frames, received, content, thinkContent,
                 outputItems, toolCalls, toolResults, firstToken, finalFirstToken,
                 paused, images, chunks, blockFirstToken, trace>>

\* The user pauses the completion (EVENT_NAMES.CHAT_COMPLETION_PAUSED).
pauseCompletion ==
  /\ pc \in {"create", "stream"}
  /\ ~paused
  /\ paused' = TRUE
  /\ UNCHANGED <<pc, opts, reqMessages, idx, frames, received, content, thinkContent,
                 outputItems, toolCalls, toolResults, firstToken, finalFirstToken,
                 images, chunks, blockFirstToken, trace>>

Ev(type, arg) == [type |-> type, arg |-> arg]

\* The events a Responses stream can deliver (OpenAI.Responses.ResponseStreamEvent).
\* arg is the item type, the item id, the delta text, or whether the part
\* has annotations.
StreamEvents ==
  {Ev("response.output_item.added", a) : a \in {"function_call", "message"}}
  \cup {Ev("response.reasoning_summary_part.added", "")}
  \cup {Ev("response.reasoning_summary_text.delta", d) : d \in {"", "r"}}
  \cup {Ev("response.output_item.done", a) : a \in {"reasoning", "message"}}
  \cup {Ev("response.content_part.added", "")}
  \cup {Ev("response.output_text.delta", d) : d \in {"", "a"}}
  \cup {Ev("response.output_text.done", "")}
  \cup {Ev("response.function_call_arguments.done", "fc_1")}
  \cup {Ev("response.content_part.done", a) : a \in {"annotations", "none"}}
  \cup {Ev("response.completed", "")}
  \cup {Ev("error", "")}
  \cup {Ev("response.in_progress", "")}

\* The output items a non-streamed Response can hold (nonStream.output).
OutputItems ==
  {Ev("message", a) : a \in {"output_text", "output_text_annotated", "refusal"}}
  \cup {Ev("reasoning", "")}
  \cup {Ev("function_call", "fc_1")}
  \cup {Ev("web_search_call", "")}

text(arg) == IF arg = "" THEN <<>> ELSE <<arg>>

\* The chunks one stream event makes processStream send (lines 564-677).
streamEventChunks(ev) ==
  CASE ev.type = "response.reasoning_summary_part.added" ->
         IF Len(thinkContent) > 0 THEN <<"THINKING_DELTA">> ELSE <<>>
    [] ev.type = "response.reasoning_summary_text.delta" -> <<"THINKING_DELTA">>
    [] ev.type = "response.output_item.done" ->
         IF thinkContent # <<>> /\ ev.arg = "reasoning"
           THEN <<"THINKING_COMPLETE">> ELSE <<>>
    [] ev.type = "response.output_text.delta" -> <<"TEXT_DELTA">>
    [] ev.type = "response.output_text.done" -> <<"TEXT_COMPLETE">>
    [] ev.type = "response.content_part.done" ->
         IF ev.arg = "annotations" THEN <<"LLM_WEB_SEARCH_COMPLETE">> ELSE <<>>
    [] ev.type = "error" -> <<"ERROR">>
    [] OTHER -> <<>>

\* Variant: tool uses parsed from the text are processed first.
toolStagesUsesFirst == <<"tool_uses", "tool_calls">>

\* Lines 695-701 (and 537-543): native function calls are processed first,
\* then the tool uses embedded in the text.
toolStages == <<"tool_calls", "tool_uses">>

stageAfter(stage) == IF stage = toolStages[1] THEN toolStages[2] ELSE "tool_results"

\* Lines 681-691: after the loop the round's content and function calls are
\* appended to the request input, and the tool stage begins.
endOfLoop(newContent, newToolCalls) ==
  /\ reqMessages' =
       reqMessages
       \o (IF newContent # <<>> THEN <<Item("assistant", "string", "content", <<>>)>>
           ELSE <<>>)
       \o [k \in 1..Len(newToolCalls) |-> Item("function_call", "call", newToolCalls[k], <<>>)]
  /\ pc' = toolStages[1]

\* One iteration of `for await (const chunk of stream)` (lines 560-680).
streamChunk(ev) ==
  /\ pc = "stream"
  /\ opts.streamOutput
  /\ received < MaxEvents
  /\ received' = received + 1
  /\ IF paused
       THEN \* break
            /\ endOfLoop(content, toolCalls)
            /\ UNCHANGED <<content, thinkContent, outputItems, toolCalls, firstToken,
                           finalFirstToken, chunks, trace>>
       ELSE /\ chunks' = chunks \o streamEventChunks(ev)
            /\ trace' = Append(trace, <<idx, "event">>)
            /\ outputItems' =
                 IF ev.type = "response.output_item.added" /\ ev.arg = "function_call"
                   THEN outputItems \cup {"fc_1"} ELSE outputItems
            /\ firstToken' =
                 IF ev.type \in {"response.reasoning_summary_part.added",
                                 "response.content_part.added"} /\ firstToken = "0"
                   THEN "t" ELSE firstToken
            /\ thinkContent' =
                 CASE ev.type = "response.reasoning_summary_part.added" ->
                        IF Len(thinkContent) > 0 THEN thinkContent \o <<"nn">>
                        ELSE thinkContent
                   [] ev.type = "response.reasoning_summary_text.delta" ->
                        thinkContent \o text(ev.arg)
                   [] OTHER -> thinkContent
            /\ content' =
                 IF ev.type = "response.output_text.delta"
                   THEN content \o text(ev.arg) ELSE content
            /\ toolCalls' =
                 IF ev.type = "response.function_call_arguments.done"
                    /\ ev.arg \in outputItems
                   THEN Append(toolCalls, ev.arg) ELSE toolCalls
            /\ finalFirstToken' =
                 IF ev.type = "response.completed"
                   THEN (IF firstToken = "0" THEN "-start" ELSE "t-start")
                   ELSE finalFirstToken
            /\ UNCHANGED <<pc, reqMessages>>
  /\ UNCHANGED <<opts, idx, frames, toolResults, paused, images, blockFirstToken>>

\* The stream ends.
streamEnd ==
  /\ pc = "stream"
  /\ opts.streamOutput
  /\ endOfLoop(content, toolCalls)
  /\ UNCHANGED <<opts, idx, frames, received, content, thinkContent, outputItems,
                 toolCalls, toolResults, firstToken, finalFirstToken, paused, images,
                 chunks, blockFirstToken, trace>>

\* Reading the stream throws (connection lost, request aborted).
streamThrows ==
  /\ pc = "stream"
  /\ opts.streamOutput
  /\ pc' = "rejected"
  /\ UNCHANGED <<opts, reqMessages, idx, frames, received, content, thinkContent,
                 outputItems, toolCalls, toolResults, firstToken, finalFirstToken,
                 paused, images, chunks, blockFirstToken, trace>>

\* The chunks one output item makes processStream send (lines 495-523).
outputItemChunks(item) ==
  CASE item.type = "message" /\ item.arg = "output_text" ->
         <<"TEXT_DELTA", "TEXT_COMPLETE">>
    [] item.type = "message" /\ item.arg = "output_text_annotated" ->
         <<"TEXT_DELTA", "TEXT_COMPLETE", "LLM_WEB_SEARCH_COMPLETE">>
    [] item.type = "reasoning" -> <<"THINKING_COMPLETE">>
    [] OTHER -> <<>>

\* One iteration of `for (const output of nonStream.output)` (lines 495-523).
outputItem(item, itemText) ==
  /\ pc = "stream"
  /\ ~opts.streamOutput
  /\ received < MaxEvents
  /\ received' = received + 1
  /\ chunks' = chunks \o outputItemChunks(item)
  /\ trace' = Append(trace, <<idx, "event">>)
  /\ content' =
       IF item.type = "message" /\ item.arg \in {"output_text", "output_text_annotated"}
         THEN content \o text(itemText) ELSE content
  /\ toolCalls' = IF item.type = "function_call" THEN Append(toolCalls, item.arg)
                  ELSE toolCalls
  /\ UNCHANGED <<pc, opts, reqMessages, idx, frames, thinkContent, outputItems,
                 toolResults, firstToken, finalFirstToken, paused, images,
                 blockFirstToken>>

\* The output list is exhausted (lines 525-535).
outputEnd ==
  /\ pc = "stream"
  /\ ~opts.streamOutput
  /\ endOfLoop(content, toolCalls)
  /\ UNCHANGED <<opts, idx, frames, received, content, thinkContent, outputItems,
                 toolCalls, toolResults, firstToken, finalFirstToken, paused, images,
                 chunks, blockFirstToken, trace>>

MaxToolUses == 1

Repeat(x, n) == [k \in 1..n |-> x]

\* parseAndCallTools invokes n tools: each reports through onChunk and the
\* invocation is recorded.
toolChunks(n) ==
  IF n = 0 THEN <<>>
  ELSE [k \in 1..(2 * n) |-> IF k % 2 = 1 THEN "MCP_TOOL_IN_PROGRESS" ELSE "MCP_TOOL_COMPLETE"]

\* processToolCalls (lines 424-456, called on lines 696-698 and 538-540):
\* n of the function calls name a known tool and are invoked, r of the
\* invocations yield a message for the model.
processToolCalls(n, r) ==
  /\ pc = "tool_calls"
  /\ n <= (IF opts.mcpTools THEN Len(toolCalls) ELSE 0)
  /\ r <= n
  /\ r > 0 => idx < MaxRounds
  /\ chunks' = chunks \o toolChunks(n)
  /\ trace' = trace \o Repeat(<<idx, "call">>, n)
  /\ toolResults' = toolResults \o Repeat("function_call_output", r)
  /\ pc' = stageAfter("tool_calls")
  /\ UNCHANGED <<opts, reqMessages, idx, frames, received, content, thinkContent,
                 outputItems, toolCalls, firstToken, finalFirstToken, paused, images,
                 blockFirstToken>>

\* processToolUses (lines 458-467, called on lines 699-701 and 541-543):
\* n tool uses are parsed from the text and invoked, r yield a message.
processToolUses(n, r) ==
  /\ pc = "tool_uses"
  /\ n <= (IF opts.mcpTools /\ content # <<>> THEN MaxToolUses ELSE 0)
  /\ r <= n
  /\ r > 0 => idx < MaxRounds
  /\ chunks' = chunks \o toolChunks(n)
  /\ trace' = trace \o Repeat(<<idx, "use">>, n)
  /\ toolResults' = toolResults \o Repeat("tool_use_result", r)
  /\ pc' = stageAfter("tool_uses")
  /\ UNCHANGED <<opts, reqMessages, idx, frames, received, content, thinkContent,
                 outputItems, toolCalls, firstToken, finalFirstToken, paused, images,
                 blockFirstToken>>

\* Variant: the follow-up request is issued without announcing a new response.
followUpChunksSilent == <<>>

\* Line 402: the follow-up request is announced by LLM_RESPONSE_CREATED.
followUpChunks == <<"LLM_RESPONSE_CREATED">>

\* processToolResults (lines 397-422): without results the round is over;
\* otherwise the results join the request input and the next request is
\* issued, whose stream is processed as round idx + 1.
processToolResults ==
  /\ pc = "tool_results"
  /\ IF toolResults = <<>>
       THEN /\ pc' = "block_complete"
            /\ UNCHANGED <<reqMessages, idx, chunks, trace>>
       ELSE /\ reqMessages' =
                 reqMessages
                 \o [k \in 1..Len(toolResults) |-> Item("tool", "result", toolResults[k], <<>>)]
            /\ chunks' = chunks \o followUpChunks
            /\ trace' = Append(trace, <<idx + 1, "request">>)
            /\ idx' = idx + 1
            /\ pc' = "create"
  /\ UNCHANGED <<opts, frames, received, content, thinkContent, outputItems, toolCalls,
                 toolResults, firstToken, finalFirstToken, paused, images,
                 blockFirstToken>>

\* Lines 704-710 and 546-553: a processStream call ends by sending
\* BLOCK_COMPLETE and returns to the round that issued its request.
blockComplete ==
  /\ pc = "block_complete"
  /\ chunks' = onChunk(chunks, "BLOCK_COMPLETE")
  /\ blockFirstToken' =
       Append(blockFirstToken, IF opts.streamOutput THEN finalFirstToken ELSE "0")
  /\ frames' = frames - 1
  /\ pc' = IF frames = 1 THEN "settling" ELSE "block_complete"
  /\ UNCHANGED <<opts, reqMessages, idx, received, content, thinkContent, outputItems,
                 toolCalls, toolResults, firstToken, finalFirstToken, paused, images,
                 trace>>

\* Lines 735-740: cleanup has run, signalPromise did not reject: completions
\* returns.
completionsReturns ==
  /\ pc = "settling"
  /\ pc' = "done"
  /\ UNCHANGED <<opts, reqMessages, idx, frames, received, content, thinkContent,
                 outputItems, toolCalls, toolResults, firstToken, finalFirstToken,
                 paused, images, chunks, blockFirstToken, trace>>

\* Lines 737-740: the abort signal's promise rejects: completions rejects.
signalPromiseRejects ==
  /\ pc = "settling"
  /\ pc' = "rejected"
  /\ UNCHANGED <<opts, reqMessages, idx, frames, received, content, thinkContent,
                 outputItems, toolCalls, toolResults, firstToken, finalFirstToken,
                 paused, images, chunks, blockFirstToken, trace>>

\* ========================================================================
\* BaseOpenAIProvider.generateImageByChat
\* ========================================================================

\* Variant: the catch block closes the block after reporting the error.
failureChunksWithBlockComplete == <<"ERROR", "BLOCK_COMPLETE">>

\* Lines 1151-1157: the catch block reports the error as a chunk.
failureChunks == <<"ERROR">>

\* Lines 1057-1096: the user's image files and the assistant's data-URL
\* images are read; a read that throws lands in the catch block.
readImages(ok) ==
  /\ pc = "image_read"
  /\ ~ok => opts.userFiles + opts.assistantImages > 0
  /\ IF ok
       THEN /\ images' = opts.userFiles + opts.assistantImages
            /\ chunks' = onChunk(onChunk(chunks, "LLM_RESPONSE_CREATED"), "IMAGE_CREATED")
            /\ pc' = "image_request"
       ELSE /\ chunks' = chunks \o failureChunks
            /\ pc' = "done"
            /\ UNCHANGED images
  /\ trace' = IF ok THEN trace ELSE Append(trace, <<0, "throw">>)
  /\ UNCHANGED <<opts, reqMessages, idx, frames, received, content, thinkContent,
                 outputItems, toolCalls, toolResults, firstToken, finalFirstToken,
                 paused, blockFirstToken>>

\* Lines 1100-1150: images.edit or images.generate is awaited.  It resolves
\* with a response, resolves with null (response.usage then throws after
\* IMAGE_COMPLETE was sent), or rejects.
imagesRequest(outcome) ==
  /\ pc = "image_request"
  /\ trace' = Append(trace, <<0, IF images > 0 THEN "images.edit" ELSE "images.generate">>)
                \o (IF outcome = "response" THEN <<>> ELSE <<<<0, "throw">>>>)
  /\ CASE outcome = "response" ->
            /\ chunks' = onChunk(onChunk(chunks, "IMAGE_COMPLETE"), "BLOCK_COMPLETE")
            /\ blockFirstToken' = Append(blockFirstToken, "0")
       [] outcome = "null" ->
            /\ chunks' = onChunk(chunks, "IMAGE_COMPLETE") \o failureChunks
            /\ UNCHANGED blockFirstToken
       [] outcome = "rejects" ->
            /\ chunks' = chunks \o failureChunks
            /\ UNCHANGED blockFirstToken
  /\ pc' = "done"
  /\ UNCHANGED <<opts, reqMessages, idx, frames, received, content, thinkContent,
                 outputItems, toolCalls, toolResults, firstToken, finalFirstToken,
                 paused, images>>

\* ========================================================================
\* BaseOpenAIProvider.check
\* ========================================================================
MaxChecks == 2
MaxCheckEvents == 2

\* What the SDK throws: always an Error object.
SdkErrors == {"APIError", "APIConnectionError", "APIUserAbortError"}

CheckInit ==
  /\ checkPc = "idle"
  /\ checkStream = FALSE
  /\ checkSeen = 0
  /\ checkLog = <<>>

\* `return { valid, error }`: the promise resolves and the call is over.
checkReturn(cause, valid, error) ==
  /\ checkLog' = Append(checkLog, [cause |-> cause, valid |-> valid, error |-> error])
  /\ checkPc' = "idle"
  /\ checkSeen' = 0

\* Variant: an exhausted stream is not reported as an error.
noStreamingResponseIgnored == [valid |-> TRUE, error |-> Null]

\* Line 969: the stream ended without a text delta.
noStreamingResponse == [valid |-> FALSE, error |-> "Error: No streaming response"]

\* check(model, stream), lines 953-963 and 971-975: without a model the
\* call returns at once, otherwise the request is issued.
check(model, stream) ==
  /\ checkPc = "idle"
  /\ Len(checkLog) < MaxChecks
  /\ checkStream' = stream
  /\ IF model = Null
       THEN checkReturn("no model", FALSE, "Error: No model found")
       ELSE /\ checkPc' = "create"
            /\ UNCHANGED <<checkSeen, checkLog>>

\* sdk.responses.create rejects: the catch block returns the error.
checkCreateRejected(error) ==
  /\ checkPc = "create"
  /\ checkReturn("create rejected", FALSE, error)
  /\ UNCHANGED checkStream

\* sdk.responses.create resolves: with a stream to read, or with a response
\* whose output_text decides the result (lines 976-979).
checkCreateResolved(output_text) ==
  /\ checkPc = "create"
  /\ IF checkStream
       THEN /\ checkPc' = "stream"
            /\ UNCHANGED <<checkSeen, checkLog>>
       ELSE IF output_text = ""
              THEN checkReturn("empty output", FALSE, "Error: No response")
              ELSE checkReturn("output", TRUE, Null)
  /\ UNCHANGED checkStream

\* One iteration of the loop on lines 964-968.
checkChunk(ev) ==
  /\ checkPc = "stream"
  /\ checkSeen < MaxCheckEvents
  /\ IF ev.type = "response.output_text.delta"
       THEN checkReturn("delta", TRUE, Null)
       ELSE /\ checkSeen' = checkSeen + 1
            /\ UNCHANGED <<checkPc, checkLog>>
  /\ UNCHANGED checkStream

\* The stream ends (line 969).
checkStreamEnd ==
  /\ checkPc = "stream"
  /\ checkReturn("stream ended", noStreamingResponse.valid, noStreamingResponse.error)
  /\ UNCHANGED checkStream

\* Reading the stream throws: the catch block returns the error.
checkStreamThrows(error) ==
  /\ checkPc = "stream"
  /\ checkReturn("stream threw", FALSE, error)
  /\ UNCHANGED checkStream

\* ========================================================================
\* CodePreview.tsx: VirtualizedRow and completeLineTokens
\* ========================================================================
MaxLineLen == 3

Chars == {"a", "b", " "}

Token(tokenContent, offset, color) ==
  [content |-> tokenContent, offset |-> offset, color |-> color]

RECURSIVE join(_)
\* tokens.map((token) => token.content).join('')
join(tokens) ==
  IF tokens = <<>> THEN <<>> ELSE Head(tokens).content \o join(Tail(tokens))

\* String.prototype.slice(start) for 0 <= start
slice(str, start) ==
  IF start >= Len(str) THEN <<>> ELSE SubSeq(str, start + 1, Len(str))

\* Variant: the remainder is cut at the number of tokens, not at the length
\* of their text.
completeLineTokensByTokenCount(themedTokens, line) ==
  IF Len(line) = 0
    THEN <<Token(<<" ">>, 0, "inherit")>>
    ELSE LET extraContent == slice(line, Len(themedTokens))
         IN IF extraContent = <<>> THEN themedTokens
            ELSE Append(themedTokens, Token(extraContent, Len(themedTokens), "inherit"))

\* completeLineTokens(themedTokens, rawLine), lines 195-230.
completeLineTokens(themedTokens, line) ==
  IF Len(line) = 0
    THEN <<Token(<<" ">>, 0, "inherit")>>
    ELSE LET themedContent == join(themedTokens)
             extraContent == slice(line, Len(themedContent))
         IN IF extraContent = <<>> THEN themedTokens
            ELSE Append(themedTokens, Token(extraContent, Len(themedContent), "inherit"))

PreviewInit ==
  /\ rawLine = <<>>
  /\ tokenLine = {}
  /\ rowTokens = completeLineTokens(<<>>, <<>>)

\* VirtualizedRow (lines 241-256) renders completeLineTokens(tokenLine ?? [], rawLine).
VirtualizedRow(line, highlighted) ==
  /\ rawLine' = line
  /\ tokenLine' = highlighted
  /\ rowTokens' = completeLineTokens(IF highlighted = {} THEN <<>>
                                     ELSE CHOOSE t \in highlighted : TRUE, line)

\* The lines of at most MaxLineLen characters.
Lines == UNION {[1..n -> Chars] : n \in 0..MaxLineLen}

RECURSIVE tokenizations(_, _)
\* The ways the highlighter can cut str into tokens, the first at offset.
tokenizations(str, offset) ==
  IF str = <<>> THEN {<<>>}
  ELSE UNION {{<<Token(SubSeq(str, 1, n), offset, "theme")>> \o rest :
                 rest \in tokenizations(slice(str, n), offset + n)} : n \in 1..Len(str)}

\* The token lines the highlighter can have for a line: none yet, or the
\* tokens of the part of the line highlighted so far.
TokenLines(line) ==
  {{}} \cup {{t} : t \in UNION {tokenizations(SubSeq(line, 1, n), 0) : n \in 0..Len(line)}}

\* ========================================================================
\* BaseOpenAIProvider.models
\* ========================================================================
VARIABLES modelsPc, modelsBanned, modelsData, modelsCause, modelsReturn

modelsVars == <<modelsPc, modelsBanned, modelsData, modelsCause, modelsReturn>>

MaxModels == 2
MaxIdLen == 2

IdChars == {"a", " "}

\* The ids the service can list.
Ids == UNION {[1..n -> IdChars] : n \in 0..MaxIdLen}

\* A listed model: its id, or no id at all (model.id is undefined).
Model(hasId, id) == [hasId |-> hasId, id |-> id]

ListedModels == {Model(TRUE, id) : id \in Ids} \cup {Model(FALSE, <<>>)}

\* response.data: a list of models, or nothing (the empty set).
ModelLists == {{}} \cup {{l} : l \in UNION {[1..n -> ListedModels] : n \in 0..MaxModels}}

RECURSIVE trimStart(_)
trimStart(str) ==
  IF str # <<>> /\ Head(str) = " " THEN trimStart(Tail(str)) ELSE str

RECURSIVE trimEnd(_)
trimEnd(str) ==
  IF str # <<>> /\ str[Len(str)] = " " THEN trimEnd(SubSeq(str, 1, Len(str) - 1)) ELSE str

\* Variant: only leading whitespace is removed.
trimLeadingOnly(str) == trimStart(str)

\* String.prototype.trim()
trim(str) == trimEnd(trimStart(str))

\* isSupportedModel(model): a test of the model's id, here that it does not
\* hold the banned character ("none" bans nothing).
isSupportedModel(model, banned) ==
  \A k \in 1..Len(model.id) : model.id[k] # banned

\* The models of list that pass test, in order.
RECURSIVE filterModels(_, _)
filterModels(list, banned) ==
  IF list = <<>> THEN <<>>
  ELSE (IF isSupportedModel(Head(list), banned) THEN <<Head(list)>> ELSE <<>>)
       \o filterModels(Tail(list), banned)

ModelsInit ==
  /\ modelsPc = "idle"
  /\ modelsBanned = "none"
  /\ modelsData = {}
  /\ modelsCause = "none"
  /\ modelsReturn = <<>>

\* models(), lines 990-992: sdk.models.list() is awaited.
models(banned) ==
  /\ modelsPc \in {"idle", "returned"}
  /\ modelsPc' = "list"
  /\ modelsBanned' = banned
  /\ modelsData' = {}
  /\ modelsCause' = "none"
  /\ modelsReturn' = <<>>

\* Lines 993-997: the list resolves; every id is trimmed in place, and the
\* supported models are returned.  model.id.trim() throws on a model
\* without an id, which lands in the catch block (line 999).
modelsListResolved(data) ==
  /\ modelsPc = "list"
  /\ modelsData' = data
  /\ LET listed == IF data = {} THEN <<>> ELSE CHOOSE l \in data : TRUE
         throws == \E k \in 1..Len(listed) : ~listed[k].hasId
         trimmed == [k \in 1..Len(listed) |-> Model(TRUE, trim(listed[k].id))]
     IN IF throws
          THEN /\ modelsCause' = "threw"
               /\ modelsReturn' = <<>>
          ELSE /\ modelsCause' = "listed"
               /\ modelsReturn' = filterModels(trimmed, modelsBanned)
  /\ modelsPc' = "returned"
  /\ UNCHANGED modelsBanned

\* Lines 998-1000: the list rejects; the catch block returns [].
modelsListRejected ==
  /\ modelsPc = "list"
  /\ modelsCause' = "rejected"
  /\ modelsReturn' = <<>>
  /\ modelsPc' = "returned"
  /\ UNCHANGED <<modelsBanned, modelsData>>

\* ========================================================================
\* BaseOpenAIProvider.translate
\* ========================================================================
VARIABLES translatePc, translateOpts, translateText, translateEvents, translateCalls,
          translateOutput, translateReturn

translateVars == <<translatePc, translateOpts, translateText, translateEvents,
                   translateCalls, translateOutput, translateReturn>>

MaxTranslateEvents == 3

\* Texts the service can send, as sequences of characters.
Texts == {<<>>, <<"a">>, <<"a", "b">>}

\* The events of a translation stream: text deltas, the end of a text part
\* with its text, and any other event.
TranslateEvents ==
  {Ev("response.output_text.delta", d) : d \in {<<"a">>, <<"b">>}}
  \cup {Ev("response.output_text.done", t) : t \in Texts \ {<<>>}}
  \cup {Ev("response.completed", <<>>)}

\* Variant: streaming is used whenever a callback is supplied.
isSupportedStreamOutputAnyModel(hasOnResponse, isOpenAIReasoning) == hasOnResponse

\* isSupportedStreamOutput(), lines 771-776.
isSupportedStreamOutput(hasOnResponse, isOpenAIReasoning) ==
  IF ~hasOnResponse THEN FALSE ELSE ~isOpenAIReasoning

TranslateInit ==
  /\ translatePc = "idle"
  /\ translateOpts = [hasOnResponse |-> FALSE, isOpenAIReasoning |-> FALSE, stream |-> FALSE]
  /\ translateText = <<>>
  /\ translateEvents = <<>>
  /\ translateCalls = <<>>
  /\ translateOutput = {}
  /\ translateReturn = {}

\* translate(content, assistant, onResponse), lines 750-789 and 801-808:
\* the request is issued, streamed or not.
translate(hasOnResponse, isOpenAIReasoning) ==
  /\ translatePc = "idle"
  /\ translateOpts' = [hasOnResponse |-> hasOnResponse,
                       isOpenAIReasoning |-> isOpenAIReasoning,
                       stream |-> isSupportedStreamOutput(hasOnResponse, isOpenAIReasoning)]
  /\ translatePc' = "create"
  /\ UNCHANGED <<translateText, translateEvents, translateCalls, translateOutput,
                 translateReturn>>

\* sdk.responses.create resolves: with a stream to read, or with the
\* response whose output_text is returned (line 810).
translateCreateResolved(output_text) ==
  /\ translatePc = "create"
  /\ IF translateOpts.stream
       THEN /\ translatePc' = "stream"
            /\ UNCHANGED <<translateOutput, translateReturn>>
       ELSE /\ translatePc' = "done"
            /\ translateOutput' = {output_text}
            /\ translateReturn' = {output_text}
  /\ UNCHANGED <<translateOpts, translateText, translateEvents, translateCalls>>

\* sdk.responses.create rejects: translate rejects.
translateCreateRejected ==
  /\ translatePc = "create"
  /\ translatePc' = "rejected"
  /\ UNCHANGED <<translateOpts, translateText, translateEvents, translateCalls,
                 translateOutput, translateReturn>>

\* One iteration of the loop on lines 790-799.
translateChunk(ev) ==
  /\ translatePc = "stream"
  /\ Len(translateEvents) < MaxTranslateEvents
  /\ translateEvents' = Append(translateEvents, ev)
  /\ IF ev.type = "response.output_text.delta"
       THEN /\ translateText' = translateText \o ev.arg
            /\ translateCalls' = Append(translateCalls, <<translateText \o ev.arg, FALSE>>)
       ELSE IF ev.type = "response.output_text.done"
         THEN /\ translateCalls' = Append(translateCalls, <<ev.arg, TRUE>>)
              /\ UNCHANGED translateText
         ELSE UNCHANGED <<translateText, translateCalls>>
  /\ UNCHANGED <<translatePc, translateOpts, translateOutput, translateReturn>>

\* The stream ends: the accumulated text is returned (line 813).
translateStreamEnd ==
  /\ translatePc = "stream"
  /\ translatePc' = "done"
  /\ translateReturn' = {translateText}
  /\ UNCHANGED <<translateOpts, translateText, translateEvents, translateCalls,
                 translateOutput>>

\* Reading the stream throws: translate rejects.
translateStreamThrows ==
  /\ translatePc = "stream"
  /\ translatePc' = "rejected"
  /\ UNCHANGED <<translateOpts, translateText, translateEvents, translateCalls,
                 translateOutput, translateReturn>>

\* ========================================================================
\* BaseOpenAIProvider.summaries
\* ========================================================================
VARIABLES summariesPc, summariesMessages, summariesPrompt, summariesOutput,
          summariesReturn

summariesVars == <<summariesPc, summariesMessages, summariesPrompt, summariesOutput,
                   summariesReturn>>

MaxMessages == 6

\* takeRight(messages, 5) on line 824, substring(0, 50) on line 851.
SummaryContext == 5
TopicNameLen == 50

\* A message of the conversation; its main text is a run of k characters,
\* k being its position, so that every message has its own text.
SummaryMsg(role, isPreset, k) ==
  [role |-> role, isPreset |-> isPreset, content |-> [i \in 1..k |-> "x"]]

SummaryKinds == {<<"user", FALSE>>, <<"assistant", FALSE>>, <<"user", TRUE>>,
                 <<"system", FALSE>>}

\* The conversation whose k-th message is of kind kinds[k].
SummaryConversation(kinds) ==
  [k \in 1..Len(kinds) |-> SummaryMsg(kinds[k][1], kinds[k][2], k)]

\* The model's output_text: its characters are numbered, and it is shorter
\* than, as long as, or longer than the topic name.
SummaryOutputs ==
  {[k \in 1..n |-> k] : n \in {0, 1, TopicNameLen - 1, TopicNameLen, TopicNameLen + 1,
                                TopicNameLen + 10}}

RECURSIVE notPreset(_)
\* messages.filter((message) => !message.isPreset)
notPreset(messages) ==
  IF messages = <<>> THEN <<>>
  ELSE (IF Head(messages).isPreset THEN <<>> ELSE <<Head(messages)>>)
       \o notPreset(Tail(messages))

\* Variant: preset messages are removed before the last five are taken.
userMessagesOfLastFiveKept(messages) == takeRight(notPreset(messages), SummaryContext)

\* Lines 824-829: the last five messages, without the preset ones.
userMessages(messages) == notPreset(takeRight(messages, SummaryContext))

RECURSIVE userMessageContent(_, _)
\* Lines 830-833: userMessages.reduce(...), prev being the text so far.
userMessageContent(prev, messages) ==
  IF messages = <<>> THEN prev
  ELSE LET curr == Head(messages)
           line == IF curr.role = "user" THEN <<"User: ">> \o curr.content
                   ELSE <<"Assistant: ">> \o curr.content
       IN userMessageContent(prev \o (IF prev # <<>> THEN <<"\n">> ELSE <<>>) \o line,
                             Tail(messages))

\* String.prototype.substring(start, end) for 0 <= start <= end
substring(str, start, end) ==
  SubSeq(str, start + 1, IF end < Len(str) THEN end ELSE Len(str))

\* removeSpecialCharactersForTopicName(str): what it was applied to.
removeSpecialCharactersForTopicName(str) == [cleaned |-> str]

SummariesInit ==
  /\ summariesPc = "idle"
  /\ summariesMessages = <<>>
  /\ summariesPrompt = <<>>
  /\ summariesOutput = {}
  /\ summariesReturn = {}

\* summaries(messages, assistant), lines 822-850: the prompt is built and
\* the request is issued.
summaries(messages) ==
  /\ summariesPc = "idle"
  /\ summariesMessages' = messages
  /\ summariesPrompt' = userMessageContent(<<>>, userMessages(messages))
  /\ summariesPc' = "create"
  /\ UNCHANGED <<summariesOutput, summariesReturn>>

\* Line 851: the request resolves and the topic name is returned.
summariesCreateResolved(output_text) ==
  /\ summariesPc = "create"
  /\ summariesOutput' = {output_text}
  /\ summariesReturn' =
       {removeSpecialCharactersForTopicName(substring(output_text, 0, TopicNameLen))}
  /\ summariesPc' = "done"
  /\ UNCHANGED <<summariesMessages, summariesPrompt>>

\* The request rejects: summaries rejects.
summariesCreateRejected ==
  /\ summariesPc = "create"
  /\ summariesPc' = "rejected"
  /\ UNCHANGED <<summariesMessages, summariesPrompt, summariesOutput, summariesReturn>>

\* ========================================================================
\* BaseOpenAIProvider: message conversion (Chat Completions API)
\* ========================================================================
VARIABLES paramPc, paramMessage, paramIsVision, paramResponse, paramChat

paramVars == <<paramPc, paramMessage, paramIsVision, paramResponse, paramChat>>

MaxBlocks == 2

RECURSIVE chatImageParts(_, _)
\* getMessageParam, the loop over imageBlocks (lines 273-282).
chatImageParts(blocks, isVision) ==
  IF blocks = <<>> THEN <<>>
  ELSE LET b == Head(blocks)
           part == IF ~isVision THEN <<>>
                   ELSE IF b = "file" THEN <<Part("image_url", "file", "")>>
                   ELSE IF b \in {"data_image", "data_other"}
                          THEN <<Part("image_url", "url", "")>>
                   ELSE <<>>
       IN part \o chatImageParts(Tail(blocks), isVision)

RECURSIVE chatFileParts(_)
\* getMessageParam, the loop over fileBlocks (lines 284-297).
chatFileParts(blocks) ==
  IF blocks = <<>> THEN <<>>
  ELSE LET f == Head(blocks)
           part == IF f = "nofile" THEN <<>>
                   ELSE IF f \in {"text", "document"}
                          THEN <<Part("text", "filetext", "file")>>
                   ELSE <<>>
       IN part \o chatFileParts(Tail(blocks))

\* getMessageParam(message, model), lines 251-303.
getMessageParam(message, isVision) ==
  IF Len(message.fileBlocks) = 0 /\ Len(message.imageBlocks) = 0
    THEN Item(responseRole(message.role), "string", message.content, <<>>)
    ELSE Item(responseRole(message.role), "parts", "",
              (IF message.content # ""
                 THEN <<Part("text", "content", message.content)>> ELSE <<>>)
              \o chatImageParts(message.imageBlocks, isVision)
              \o chatFileParts(message.fileBlocks))

\* The lists of at most MaxBlocks blocks of the given kinds.
BlockLists(kinds) == UNION {[1..n -> kinds] : n \in 0..MaxBlocks}

ParamInit ==
  /\ paramPc = "idle"
  /\ paramMessage = Msg("user", "", <<>>, <<>>)
  /\ paramIsVision = FALSE
  /\ paramResponse = getReponseMessageParam(Msg("user", "", <<>>, <<>>), FALSE)
  /\ paramChat = getMessageParam(Msg("user", "", <<>>, <<>>), FALSE)

\* A message is converted for a model, for either API.
convertMessage(message, isVision) ==
  /\ paramPc = "idle"
  /\ paramPc' = "converted"
  /\ paramMessage' = message
  /\ paramIsVision' = isVision
  /\ paramResponse' = getReponseMessageParam(message, isVision)
  /\ paramChat' = getMessageParam(message, isVision)

\* The caller takes the converted item (line 368): the call is over.
takeConverted ==
  /\ paramPc = "converted"
  /\ paramPc' = "idle"
  /\ paramMessage' = Msg("user", "", <<>>, <<>>)
  /\ paramIsVision' = FALSE
  /\ paramResponse' = getReponseMessageParam(Msg("user", "", <<>>, <<>>), FALSE)
  /\ paramChat' = getMessageParam(Msg("user", "", <<>>, <<>>), FALSE)

\* ========================================================================
\* Specifications
\* ========================================================================
providerVars == <<modelsVars, translateVars, summariesVars, paramVars>>

vars == <<updaterVars, aboutVars, completionsVars, checkVars, previewVars, providerVars>>

Init ==
  /\ UpdaterInit /\ AboutInit /\ CompletionsInit /\ CheckInit /\ PreviewInit
  /\ ModelsInit /\ TranslateInit /\ SummariesInit /\ ParamInit

\* ---- the update service ----
NextUpdater ==
  \/ AppUpdaterConstructor /\ UNCHANGED <<aboutVars, completionsVars, checkVars, previewVars, providerVars>>
  \/ \E isActive \in BOOLEAN :
       setAutoUpdate(isActive) /\ UNCHANGED <<aboutVars, completionsVars, checkVars, previewVars, providerVars>>
  \/ cancelDownload /\ UNCHANGED <<aboutVars, completionsVars, checkVars, previewVars, providerVars>>
  \/ checkForUpdates /\ UNCHANGED <<aboutVars, completionsVars, checkVars, previewVars, providerVars>>

SpecUpdater == Init /\ [][NextUpdater]_vars

\* ---- the About page ----
NextAbout ==
  \/ Tick /\ UNCHANGED <<updaterVars, completionsVars, checkVars, previewVars, providerVars>>
  \/ onCheckUpdate /\ UNCHANGED <<updaterVars, completionsVars, checkVars, previewVars, providerVars>>
  \/ timerExpired /\ UNCHANGED <<updaterVars, completionsVars, checkVars, previewVars, providerVars>>
  \/ loadAppInfo /\ UNCHANGED <<updaterVars, completionsVars, checkVars, previewVars, providerVars>>
  \/ contextChanged /\ UNCHANGED <<updaterVars, completionsVars, checkVars, previewVars, providerVars>>

SpecAbout == Init /\ [][NextAbout]_vars

\* ---- one completions call ----
\* The conversations a call is made with.
Conversations ==
  {<<>>,
   <<Msg("user", "hi", <<>>, <<>>)>>,
   <<Msg("system", "sys", <<>>, <<>>), Msg("user", "", <<"file">>, <<>>)>>,
   <<Msg("user", "hi", <<>>, <<>>), Msg("assistant", "yo", <<"data_image">>, <<>>)>>,
   <<Msg("assistant", "yo", <<>>, <<>>)>>}

\* The models a call is made with: a text model and a vision model that
\* supports reasoning effort.
TextModel == [isVision |-> FALSE, reasoningEffort |-> FALSE]

ReasoningVisionModel == [isVision |-> TRUE, reasoningEffort |-> TRUE]

\* contextCount, and the indices the message filters keep of the messages
\* taken from the right.  The prompt is empty or not with the text model,
\* and not empty with the reasoning model.
CompletionsInputs ==
  [enableGenerateImage : BOOLEAN, streamOutput : BOOLEAN, mcpTools : BOOLEAN,
   contextCount : {0, 1}, kept : {{1, 2}, {2}},
   systemText : {"", "prompt"}, model : {TextModel}]
  \cup
  [enableGenerateImage : BOOLEAN, streamOutput : BOOLEAN, mcpTools : BOOLEAN,
   contextCount : {0, 1}, kept : {{1, 2}, {2}},
   systemText : {"prompt"}, model : {ReasoningVisionModel}]

NextCompletions ==
  \/ /\ pc = "idle"
     /\ \E messages \in Conversations, in \in CompletionsInputs :
          completions(messages, in) /\ UNCHANGED <<updaterVars, aboutVars, checkVars, previewVars, providerVars>>
  \/ createResolved /\ UNCHANGED <<updaterVars, aboutVars, checkVars, previewVars, providerVars>>
  \/ createRejected /\ UNCHANGED <<updaterVars, aboutVars, checkVars, previewVars, providerVars>>
  \/ pauseCompletion /\ UNCHANGED <<updaterVars, aboutVars, checkVars, previewVars, providerVars>>
  \/ /\ pc = "stream"
     /\ \E ev \in StreamEvents : streamChunk(ev) /\ UNCHANGED <<updaterVars, aboutVars, checkVars, previewVars, providerVars>>
  \/ streamEnd /\ UNCHANGED <<updaterVars, aboutVars, checkVars, previewVars, providerVars>>
  \/ streamThrows /\ UNCHANGED <<updaterVars, aboutVars, checkVars, previewVars, providerVars>>
  \/ /\ pc = "stream"
     /\ \E item \in OutputItems, itemText \in {"", "a"} :
          outputItem(item, itemText) /\ UNCHANGED <<updaterVars, aboutVars, checkVars, previewVars, providerVars>>
  \/ outputEnd /\ UNCHANGED <<updaterVars, aboutVars, checkVars, previewVars, providerVars>>
  \/ /\ pc = "tool_calls"
     /\ \E n \in 0..MaxEvents, r \in 0..MaxEvents :
          processToolCalls(n, r) /\ UNCHANGED <<updaterVars, aboutVars, checkVars, previewVars, providerVars>>
  \/ /\ pc = "tool_uses"
     /\ \E n \in 0..MaxToolUses, r \in 0..MaxToolUses :
          processToolUses(n, r) /\ UNCHANGED <<updaterVars, aboutVars, checkVars, previewVars, providerVars>>
  \/ processToolResults /\ UNCHANGED <<updaterVars, aboutVars, checkVars, previewVars, providerVars>>
  \/ blockComplete /\ UNCHANGED <<updaterVars, aboutVars, checkVars, previewVars, providerVars>>
  \/ completionsReturns /\ UNCHANGED <<updaterVars, aboutVars, checkVars, previewVars, providerVars>>
  \/ signalPromiseRejects /\ UNCHANGED <<updaterVars, aboutVars, checkVars, previewVars, providerVars>>
  \/ \E ok \in BOOLEAN : readImages(ok) /\ UNCHANGED <<updaterVars, aboutVars, checkVars, previewVars, providerVars>>
  \/ \E outcome \in {"response", "null", "rejects"} :
       imagesRequest(outcome) /\ UNCHANGED <<updaterVars, aboutVars, checkVars, previewVars, providerVars>>

SpecCompletions == Init /\ [][NextCompletions]_vars

\* ---- health checks of models ----
NextCheck ==
  \/ \E model \in {Null, "gpt"}, stream \in BOOLEAN :
       check(model, stream)
       /\ UNCHANGED <<updaterVars, aboutVars, completionsVars, previewVars, providerVars>>
  \/ \E error \in SdkErrors :
       checkCreateRejected(error)
       /\ UNCHANGED <<updaterVars, aboutVars, completionsVars, previewVars, providerVars>>
  \/ \E output_text \in {"", "hello"} :
       checkCreateResolved(output_text)
       /\ UNCHANGED <<updaterVars, aboutVars, completionsVars, previewVars, providerVars>>
  \/ /\ checkPc = "stream"
     /\ \E ev \in StreamEvents :
          checkChunk(ev)
          /\ UNCHANGED <<updaterVars, aboutVars, completionsVars, previewVars, providerVars>>
  \/ checkStreamEnd /\ UNCHANGED <<updaterVars, aboutVars, completionsVars, previewVars, providerVars>>
  \/ \E error \in SdkErrors :
       checkStreamThrows(error)
       /\ UNCHANGED <<updaterVars, aboutVars, completionsVars, previewVars, providerVars>>

SpecCheck == Init /\ [][NextCheck]_vars

\* ---- rendering code rows ----
NextPreview ==
  \E line \in Lines : \E highlighted \in TokenLines(line) :
    VirtualizedRow(line, highlighted)
    /\ UNCHANGED <<updaterVars, aboutVars, completionsVars, checkVars, providerVars>>

SpecPreview == Init /\ [][NextPreview]_vars

\* ---- listing models ----
appVars == <<updaterVars, aboutVars, completionsVars, checkVars, previewVars>>

NextModels ==
  \/ \E banned \in IdChars \cup {"none"} :
       models(banned) /\ UNCHANGED <<appVars, translateVars, summariesVars, paramVars>>
  \/ /\ modelsPc = "list"
     /\ \E data \in ModelLists :
          modelsListResolved(data) /\ UNCHANGED <<appVars, translateVars, summariesVars, paramVars>>
  \/ modelsListRejected /\ UNCHANGED <<appVars, translateVars, summariesVars, paramVars>>

SpecModels == Init /\ [][NextModels]_vars

\* ---- one translation ----
NextTranslate ==
  \/ \E hasOnResponse \in BOOLEAN, isOpenAIReasoning \in BOOLEAN :
       translate(hasOnResponse, isOpenAIReasoning)
       /\ UNCHANGED <<appVars, modelsVars, summariesVars, paramVars>>
  \/ \E output_text \in Texts :
       translateCreateResolved(output_text)
       /\ UNCHANGED <<appVars, modelsVars, summariesVars, paramVars>>
  \/ translateCreateRejected /\ UNCHANGED <<appVars, modelsVars, summariesVars, paramVars>>
  \/ \E ev \in TranslateEvents :
       translateChunk(ev) /\ UNCHANGED <<appVars, modelsVars, summariesVars, paramVars>>
  \/ translateStreamEnd /\ UNCHANGED <<appVars, modelsVars, summariesVars, paramVars>>
  \/ translateStreamThrows /\ UNCHANGED <<appVars, modelsVars, summariesVars, paramVars>>

SpecTranslate == Init /\ [][NextTranslate]_vars

\* ---- naming one topic ----
NextSummaries ==
  \/ /\ summariesPc = "idle"
     /\ \E n \in 0..MaxMessages :
          \E kinds \in [1..n -> SummaryKinds] :
            summaries(SummaryConversation(kinds))
            /\ UNCHANGED <<appVars, modelsVars, translateVars, paramVars>>
  \/ \E output_text \in SummaryOutputs :
       summariesCreateResolved(output_text)
       /\ UNCHANGED <<appVars, modelsVars, translateVars, paramVars>>
  \/ summariesCreateRejected /\ UNCHANGED <<appVars, modelsVars, translateVars, paramVars>>

SpecSummaries == Init /\ [][NextSummaries]_vars

\* ---- converting messages ----
NextParam ==
  \/ /\ paramPc = "idle"
     /\ \E role \in Roles, t \in {"", "hi"}, isVision \in BOOLEAN :
          \E imageBlocks \in BlockLists(ImageKinds), fileBlocks \in BlockLists(FileKinds) :
            convertMessage(Msg(role, t, imageBlocks, fileBlocks), isVision)
            /\ UNCHANGED <<appVars, modelsVars, translateVars, summariesVars>>
  \/ takeConverted /\ UNCHANGED <<appVars, modelsVars, translateVars, summariesVars>>

SpecParam == Init /\ [][NextParam]_vars

\* ========================================================================
\* Properties
\* ========================================================================
count(seq, x) == Cardinality({k \in 1..Len(seq) : seq[k] = x})

onResponsesPath == pc # "idle" /\ ~opts.enableGenerateImage
onImagePath == pc # "idle" /\ opts.enableGenerateImage

\* C1: on the Responses path a system message whose content is empty is not
\* sent: the request input holds no system or developer item with an empty
\* text.
C1_EmptySystemMessageNotSent ==
  onResponsesPath =>
    \A k \in 1..Len(reqMessages) :
      reqMessages[k].role \in {"system", "developer"} =>
        \E p \in 1..Len(reqMessages[k].parts) : reqMessages[k].parts[p].text # ""

\* C2: when a completions call on the Responses path returns normally after
\* k = idx tool rounds, streamed or not, the chunks start with
\* LLM_RESPONSE_CREATED, end with BLOCK_COMPLETE, and hold exactly k + 1 of
\* each, one pair per request issued.
C2_ChunkProtocol ==
  (onResponsesPath /\ pc = "done") =>
    /\ Len(chunks) >= 2
    /\ chunks[1] = "LLM_RESPONSE_CREATED"
    /\ chunks[Len(chunks)] = "BLOCK_COMPLETE"
    /\ count(chunks, "LLM_RESPONSE_CREATED") = idx + 1
    /\ count(chunks, "BLOCK_COMPLETE") = idx + 1
    /\ Cardinality({k \in 1..Len(trace) : trace[k][2] = "request"}) = idx + 1

\* C2 witness: a streamed call that returned after two tool rounds.
C2_Witness ==
  onResponsesPath /\ pc = "done" /\ idx = 2 /\ opts.streamOutput

\* C3: within a round no tool is invoked before the round's events have all
\* been consumed, native function calls are invoked before tool uses parsed
\* from the text, and the follow-up request is issued after every tool
\* invocation of the round.
C3_ToolsAfterOutput ==
  onResponsesPath =>
    \A q \in 1..Len(trace) :
      LET round == trace[q][1]
          kind == trace[q][2]
      IN kind \in {"event", "call", "use"} =>
           \A p \in 1..(q - 1) :
             /\ trace[p] # <<round + 1, "request">>
             /\ (kind = "event" /\ trace[p][1] = round) => trace[p][2] \notin {"call", "use"}
             /\ (kind = "call" /\ trace[p][1] = round) => trace[p][2] # "use"

\* C3 witness: a round in which output was consumed, a function call and a
\* tool use were invoked, and the follow-up request was issued.
C3_Witness ==
  /\ onResponsesPath
  /\ \E e, c, u, r \in 1..Len(trace) :
       /\ trace[e] = <<0, "event">>
       /\ trace[c] = <<0, "call">>
       /\ trace[u] = <<0, "use">>
       /\ trace[r] = <<1, "request">>

\* C4: once the AppUpdater is constructed, autoDownload and
\* autoInstallOnAppQuit are false, whatever methods were called since.
C4_AutoUpdateDisabled ==
  constructed => (autoDownload = FALSE /\ autoInstallOnAppQuit = FALSE)

\* C4 witness: setAutoUpdate(true) was called, and another method after it.
C4_Witness ==
  /\ constructed
  /\ \E k \in 1..Len(callLog) :
       /\ callLog[k] = <<"setAutoUpdate", TRUE>>
       /\ k < Len(callLog)

\* C5: checkForUpdates returns the current version with updateInfo null,
\* updateCheckResult stays null and no update message is sent to the main
\* window.
C5_NoUpdateCheck ==
  /\ updateCheckResult = {}
  /\ \A k \in 1..Len(ipcSent) : ipcSent[k] \notin UpdateChannels
  /\ (\E k \in 1..Len(callLog) : callLog[k][1] = "checkForUpdates")
       => lastReturn = {[currentVersion |-> AppVersion, updateInfo |-> Null]}

\* C5 witness: checkForUpdates was called after another method and has returned.
C5_Witness ==
  /\ Len(callLog) >= 2
  /\ callLog[Len(callLog)][1] = "checkForUpdates"
  /\ callLog[1][1] # "checkForUpdates"
  /\ lastReturn # {}

\* C6: check never rejects, and every result has valid true exactly when
\* error is null: no model, a rejected request, a stream that throws or ends
\* without a text delta, and an empty output_text give valid false with an
\* Error; a text delta or a non-empty output_text give valid true, error null.
C6_CheckResult ==
  /\ checkPc \in {"idle", "create", "stream"}
  /\ \A k \in 1..Len(checkLog) :
       LET r == checkLog[k]
       IN /\ r.valid <=> r.error = Null
          /\ r.cause \in {"delta", "output"} => r.valid
          /\ r.cause \in {"no model", "create rejected", "stream threw", "stream ended",
                          "empty output"} => (~r.valid /\ r.error # Null)

\* C6 witness: a streamed check whose stream ended without a text delta,
\* after a check that succeeded.
C6_Witness ==
  /\ Len(checkLog) = 2
  /\ checkLog[1].cause = "delta"
  /\ checkLog[2].cause = "stream ended"

\* C7: generateImageByChat never rejects; without a user message it sends no
\* chunk; on success the chunks are exactly LLM_RESPONSE_CREATED,
\* IMAGE_CREATED, IMAGE_COMPLETE, BLOCK_COMPLETE with
\* time_first_token_millsec 0; on failure the last chunk is ERROR and no
\* BLOCK_COMPLETE is sent.
C7_ImageChunks ==
  onImagePath =>
    /\ pc # "rejected"
    /\ ~opts.hasUser => (pc = "done" /\ chunks = <<>>)
    /\ (pc = "done" /\ opts.hasUser) =>
         IF count(trace, <<0, "throw">>) = 0
           THEN /\ chunks = <<"LLM_RESPONSE_CREATED", "IMAGE_CREATED", "IMAGE_COMPLETE",
                              "BLOCK_COMPLETE">>
                /\ blockFirstToken = <<"0">>
           ELSE /\ chunks # <<>>
                /\ chunks[Len(chunks)] = "ERROR"
                /\ count(chunks, "BLOCK_COMPLETE") = 0

\* C7 witness: the image request failed after the images had been read.
C7_Witness ==
  /\ onImagePath
  /\ pc = "done"
  /\ images > 0
  /\ count(trace, <<0, "throw">>) = 1
  /\ Len(chunks) >= 3

\* C9: the tokens rendered for a row spell the raw line, except that an
\* empty raw line is rendered as one token holding a single space.
C9_WholeLineRendered ==
  IF rawLine = <<>>
    THEN Len(rowTokens) = 1 /\ rowTokens[1].content = <<" ">>
    ELSE join(rowTokens) = rawLine

\* C9 witness: a partly highlighted line was completed with a plain token.
C9_Witness ==
  /\ Len(rawLine) = 3
  /\ \E t \in tokenLine : Len(t) = 1 /\ Len(join(t)) = 2
  /\ Len(rowTokens) = 2

\* C10: clicking the check-update button never starts an update check, and
\* clicks within 2000 ms of a click that opened the modal open no further
\* modal, also across re-renders.
C10_OneModalPerBurst ==
  /\ checksStarted = 0
  /\ \A i, j \in 1..Len(modalOpens) :
       i < j => modalOpens[j] - modalOpens[i] >= Wait

\* C11: models() never rejects; when listing fails it returns an empty
\* list, and every model it returns has an id without leading or trailing
\* whitespace and passes isSupportedModel.
C11_ModelsListed ==
  /\ modelsPc \in {"idle", "list", "returned"}
  /\ modelsPc = "returned" =>
       /\ modelsCause \in {"rejected", "threw"} => modelsReturn = <<>>
       /\ \A k \in 1..Len(modelsReturn) :
            LET id == modelsReturn[k].id
            IN /\ id = <<>> \/ (id[1] # " " /\ id[Len(id)] # " ")
               /\ isSupportedModel(modelsReturn[k], modelsBanned)

\* C11 witness: a list with an id that ends in whitespace was returned in
\* part, a model having been filtered out.
C11_Witness ==
  /\ modelsPc = "returned"
  /\ modelsCause = "listed"
  /\ modelsReturn # <<>>
  /\ \E l \in modelsData :
       /\ Len(modelsReturn) < Len(l)
       /\ \E k \in 1..Len(l) : l[k].id = <<"a", " ">>

RECURSIVE deltasOf(_)
\* The in-order concatenation of the text deltas among events.
deltasOf(events) ==
  IF events = <<>> THEN <<>>
  ELSE deltasOf(SubSeq(events, 1, Len(events) - 1))
       \o (IF events[Len(events)].type = "response.output_text.delta"
             THEN events[Len(events)].arg ELSE <<>>)

RECURSIVE onResponseCalls(_)
\* The onResponse calls a streamed translation owes for events.
onResponseCalls(events) ==
  IF events = <<>> THEN <<>>
  ELSE LET ev == events[Len(events)]
       IN onResponseCalls(SubSeq(events, 1, Len(events) - 1))
          \o (IF ev.type = "response.output_text.delta" THEN <<<<deltasOf(events), FALSE>>>>
              ELSE IF ev.type = "response.output_text.done" THEN <<<<ev.arg, TRUE>>>>
              ELSE <<>>)

\* C12: translate streams exactly when onResponse is supplied and the model
\* is not an OpenAI reasoning model; when streaming, each text delta calls
\* onResponse(text so far, false), the done event calls onResponse(its text,
\* true), and the concatenation of the deltas is returned; otherwise
\* onResponse is never called and output_text is returned.
C12_TranslateStreaming ==
  translatePc # "idle" =>
    /\ translateOpts.stream <=>
         (translateOpts.hasOnResponse /\ ~translateOpts.isOpenAIReasoning)
    /\ translateCalls = onResponseCalls(translateEvents)
    /\ IF translateOpts.stream
         THEN translatePc = "done" => translateReturn = {deltasOf(translateEvents)}
         ELSE /\ translateEvents = <<>>
              /\ translateCalls = <<>>
              /\ translatePc = "done" =>
                   (translateOutput # {} /\ translateReturn = translateOutput)

\* C12 witness: a streamed translation returned after two deltas and the
\* done event.
C12_Witness ==
  /\ translatePc = "done"
  /\ translateOpts.stream
  /\ Len(translateCalls) = 3
  /\ translateCalls[2] = <<<<"a", "b">>, FALSE>>
  /\ translateCalls[3] = <<<<"a", "b">>, TRUE>>
  /\ translateReturn = {<<"a", "b">>}

\* The positions of the last five messages that are not preset.
summaryPositions ==
  {k \in 1..Len(summariesMessages) :
     /\ k > Len(summariesMessages) - SummaryContext
     /\ ~summariesMessages[k].isPreset}

RECURSIVE summaryLinesFrom(_)
\* The prompt lines of the positions from k on, each with the separator
\* that precedes it.
summaryLinesFrom(k) ==
  IF k > Len(summariesMessages) THEN <<>>
  ELSE (IF k \notin summaryPositions THEN <<>>
        ELSE (IF \E j \in summaryPositions : j < k THEN <<"\n">> ELSE <<>>)
             \o <<IF summariesMessages[k].role = "user" THEN "User: " ELSE "Assistant: ">>
             \o summariesMessages[k].content)
       \o summaryLinesFrom(k + 1)

\* C13: the prompt of summaries holds, in their order, the messages among
\* the last 5 of the conversation that are not preset, each prefixed
\* 'User: ' for role user and 'Assistant: ' otherwise, and the topic name
\* is derived from the first 50 characters of the output at most.
C13_SummaryPrompt ==
  /\ summariesPc # "idle" =>
       /\ Cardinality(summaryPositions) <= SummaryContext
       /\ summariesPrompt = summaryLinesFrom(1)
  /\ summariesPc = "done" =>
       \E out \in summariesOutput :
         LET n == IF Len(out) < TopicNameLen THEN Len(out) ELSE TopicNameLen
         IN summariesReturn = {removeSpecialCharactersForTopicName([k \in 1..n |-> out[k]])}

\* C13 witness: a conversation of more than five messages, the last of them
\* a preset and an earlier one not, was summarised from an output of more
\* than 50 characters.
C13_Witness ==
  /\ summariesPc = "done"
  /\ Len(summariesMessages) > SummaryContext
  /\ summariesMessages[Len(summariesMessages)].isPreset
  /\ ~summariesMessages[1].isPreset
  /\ Cardinality(summaryPositions) = SummaryContext - 1
  /\ \E out \in summariesOutput : Len(out) > TopicNameLen

\* The two items the current message was converted to.
convertedItems == {paramResponse, paramChat}

\* C14: neither conversion yields role 'system': 'system' becomes 'user',
\* 'user' and 'assistant' are kept, with or without image or file blocks.
C14_NoSystemRole ==
  \A item \in convertedItems :
    /\ item.role # "system"
    /\ item.role = (IF paramMessage.role = "system" THEN "user" ELSE paramMessage.role)

\* C14 witness: a system message with an image block and a file block was
\* converted.
C14_Witness ==
  /\ paramPc = "converted"
  /\ paramMessage.role = "system"
  /\ Len(paramMessage.imageBlocks) > 0
  /\ Len(paramMessage.fileBlocks) > 0

\* Where a part comes from, in the order a converted message lists them.
partRank(part) ==
  IF part.from = "content" THEN 1 ELSE IF part.from \in {"file", "url"} THEN 2 ELSE 3

\* The number of blocks of the given kinds.
blocksOfKind(blocks, kinds) == Cardinality({k \in 1..Len(blocks) : blocks[k] \in kinds})

\* The number of parts that come from the given places.
partsFrom(item, places) ==
  Cardinality({k \in 1..Len(item.parts) : item.parts[k].from \in places})

\* C15: a converted message has an image part only if the model is a vision
\* model and an image block has a stored file or a data: URL, a file text
\* part only for file blocks of type TEXT or DOCUMENT, and its parts are in
\* the order main text, images, files.
C15_PartsOfMessage ==
  \A item \in convertedItems :
    /\ partsFrom(item, {"file", "url"}) > 0 => paramIsVision
    /\ partsFrom(item, {"file"}) <= blocksOfKind(paramMessage.imageBlocks, {"file"})
    /\ partsFrom(item, {"url"})
         <= blocksOfKind(paramMessage.imageBlocks, {"data_image", "data_other"})
    /\ partsFrom(item, {"filetext"})
         <= blocksOfKind(paramMessage.fileBlocks, {"text", "document"})
    /\ \A i, j \in 1..Len(item.parts) :
         i < j => partRank(item.parts[i]) <= partRank(item.parts[j])

\* C15 witness: a message with a main text, a stored image, a remote image,
\* a text file and an image file was converted for a vision model.
C15_Witness ==
  /\ paramPc = "converted"
  /\ paramIsVision
  /\ paramMessage.content # ""
  /\ paramMessage.imageBlocks = <<"file", "http">>
  /\ paramMessage.fileBlocks = <<"image", "text">>
  /\ Len(paramResponse.parts) = 3
  /\ Len(paramChat.parts) = 3

====
